---------------------------- MODULE Spec2Model ----------------------------
(***************************************************************************)
(* Model of Bond/bond_analyzer_app.py: the tax-rate lookup, the yield      *)
(* formulas of calculate_yields and the script's loop over bond_data.      *)
(*                                                                         *)
(* Python numbers are modelled as exact rationals <<n, d>> (d > 0, lowest  *)
(* terms); the script's floats round, the model does not.  Python's None   *)
(* is the value None below, and a raised exception is a value naming it.   *)
(***************************************************************************)
EXTENDS Integers, Sequences, FiniteSets, TLC

VARIABLES
    annual_income,   \* line 81: st.sidebar.number_input(min_value=0)
    filing_status,   \* line 82: selectbox over FEDERAL_TAX_BRACKETS keys
    investor_state,  \* line 83: selectbox over STATES_LIST
    federal_rate,    \* line 92
    state_rate,      \* line 93
    total_tax_rate,  \* line 94
    bond_data,       \* line 108: the list the loop walks
    results,         \* line 119
    idx,             \* position of the for loop of line 121 (1-based)
    args,            \* arguments of the latest call of calculate_yields
    ret,             \* what that call returned or raised
    pc               \* position of the script

vars == <<annual_income, filing_status, investor_state, federal_rate, state_rate,
          total_tax_rate, bond_data, results, idx, args, ret, pc>>

----------------------------------------------------------------------------
(* Python values *)

None == <<"None">>
NA == <<"N/A">>
Unset == <<"unset">>
ZeroDivisionError == <<"ZeroDivisionError">>
TypeError == <<"TypeError">>

Abs(n) == IF n < 0 THEN -n ELSE n

RECURSIVE GCD(_, _)
GCD(a, b) == IF b = 0 THEN a ELSE GCD(b, a % b)

\* The rational n/d in lowest terms with a positive denominator (d # 0).
Rat(n, d) ==
    LET g == GCD(Abs(n), Abs(d))
        s == IF d < 0 THEN -1 ELSE 1
    IN  <<(s * n) \div g, (s * d) \div g>>

Num(n) == <<n, 1>>
IsNum(x) == Len(x) = 2
RAdd(a, b) ==
    LET g == GCD(a[2], b[2])
    IN  Rat(a[1] * (b[2] \div g) + b[1] * (a[2] \div g), (a[2] \div g) * b[2])
RNeg(a) == <<-a[1], a[2]>>
RSub(a, b) == RAdd(a, RNeg(b))
\* Common factors are divided out before multiplying.
RMul(a, b) ==
    LET g1 == GCD(Abs(a[1]), b[2])
        g2 == GCD(Abs(b[1]), a[2])
    IN  Rat((a[1] \div g1) * (b[1] \div g2), (a[2] \div g2) * (b[2] \div g1))
Recip(b) == IF b[1] < 0 THEN <<-b[2], -b[1]>> ELSE <<b[2], b[1]>>
\* Python's a / b: ZeroDivisionError when b is zero.
RDiv(a, b) == IF b[1] = 0 THEN ZeroDivisionError ELSE RMul(a, Recip(b))
RLt(a, b) == a[1] * b[2] < b[1] * a[2]
RLe(a, b) == a[1] * b[2] <= b[1] * a[2]

\* Python's x > 0 for a number x (None > 0 raises TypeError instead).
GtZero(x) == x[1] > 0
\* Python's truth value of x: None and 0 are false.
Truthy(x) == IsNum(x) /\ x[1] # 0

Pct(p) == Rat(p, 1000)        \* p thousandths, e.g. Pct(133) is 0.133
Bp(p) == Rat(p, 10000)        \* p ten-thousandths, e.g. Bp(699) is 0.0699

----------------------------------------------------------------------------
(* Data & constants, lines 15-49 *)

FEDERAL_TAX_BRACKETS_typo ==
    [s \in {"Single", "Married Filing Jointly", "Married Filing Separately",
            "Head of Household"} |->
        IF s = "Single" THEN
            (0 :> Pct(100) @@ 11600 :> Pct(120) @@ 47150 :> Pct(220) @@
             100525 :> Pct(240) @@ 191950 :> Pct(230) @@ 243725 :> Pct(350) @@
             609350 :> Pct(370))
        ELSE IF s = "Married Filing Jointly" THEN
            (0 :> Pct(100) @@ 23200 :> Pct(120) @@ 94300 :> Pct(220) @@
             201050 :> Pct(240) @@ 383900 :> Pct(320) @@ 487450 :> Pct(350) @@
             731200 :> Pct(370))
        ELSE IF s = "Married Filing Separately" THEN
            (0 :> Pct(100) @@ 11600 :> Pct(120) @@ 47150 :> Pct(220) @@
             100525 :> Pct(240) @@ 191950 :> Pct(320) @@ 243725 :> Pct(350) @@
             365600 :> Pct(370))
        ELSE
            (0 :> Pct(100) @@ 16550 :> Pct(120) @@ 63100 :> Pct(220) @@
             100500 :> Pct(240) @@ 191950 :> Pct(320) @@ 243700 :> Pct(350) @@
             609350 :> Pct(370))]

FEDERAL_TAX_BRACKETS ==
    [s \in {"Single", "Married Filing Jointly", "Married Filing Separately",
            "Head of Household"} |->
        IF s = "Single" THEN
            (0 :> Pct(100) @@ 11600 :> Pct(120) @@ 47150 :> Pct(220) @@
             100525 :> Pct(240) @@ 191950 :> Pct(320) @@ 243725 :> Pct(350) @@
             609350 :> Pct(370))
        ELSE IF s = "Married Filing Jointly" THEN
            (0 :> Pct(100) @@ 23200 :> Pct(120) @@ 94300 :> Pct(220) @@
             201050 :> Pct(240) @@ 383900 :> Pct(320) @@ 487450 :> Pct(350) @@
             731200 :> Pct(370))
        ELSE IF s = "Married Filing Separately" THEN
            (0 :> Pct(100) @@ 11600 :> Pct(120) @@ 47150 :> Pct(220) @@
             100525 :> Pct(240) @@ 191950 :> Pct(320) @@ 243725 :> Pct(350) @@
             365600 :> Pct(370))
        ELSE
            (0 :> Pct(100) @@ 16550 :> Pct(120) @@ 63100 :> Pct(220) @@
             100500 :> Pct(240) @@ 191950 :> Pct(320) @@ 243700 :> Pct(350) @@
             609350 :> Pct(370))]

STATE_TAX_RATES_base ==
    ("None" :> Bp(0) @@ "Alabama" :> Bp(500) @@ "Alaska" :> Bp(0) @@
     "Arizona" :> Bp(250) @@ "Arkansas" :> Bp(490) @@ "California" :> Bp(1330) @@
     "Colorado" :> Bp(440) @@ "Connecticut" :> Bp(699) @@ "Delaware" :> Bp(660) @@
     "Florida" :> Bp(0) @@ "Georgia" :> Bp(549) @@ "Hawaii" :> Bp(1100) @@
     "Idaho" :> Bp(580) @@ "Illinois" :> Bp(495) @@ "Indiana" :> Bp(315) @@
     "Iowa" :> Bp(570) @@ "Kansas" :> Bp(570) @@ "Kentucky" :> Bp(500) @@
     "Louisiana" :> Bp(425) @@ "Maine" :> Bp(715) @@ "Maryland" :> Bp(575) @@
     "Massachusetts" :> Bp(500) @@ "Michigan" :> Bp(425) @@
     "Minnesota" :> Bp(985) @@ "Mississippi" :> Bp(500) @@ "Missouri" :> Bp(495) @@
     "Montana" :> Bp(470) @@ "Nebraska" :> Bp(664) @@ "Nevada" :> Bp(0) @@
     "New Hampshire" :> Bp(0) @@ "New Jersey" :> Bp(1075) @@
     "New Mexico" :> Bp(590) @@ "New York" :> Bp(1090) @@
     "North Carolina" :> Bp(450) @@ "North Dakota" :> Bp(250) @@
     "Ohio" :> Bp(399) @@ "Oklahoma" :> Bp(475) @@ "Oregon" :> Bp(990) @@
     "Pennsylvania" :> Bp(307) @@ "Rhode Island" :> Bp(599) @@
     "South Carolina" :> Bp(650) @@ "South Dakota" :> Bp(0) @@
     "Tennessee" :> Bp(0) @@ "Texas" :> Bp(0) @@ "Utah" :> Bp(465) @@
     "Vermont" :> Bp(875) @@ "Virginia" :> Bp(575) @@ "Washington" :> Bp(0) @@
     "West Virginia" :> Bp(512) @@ "Wisconsin" :> Bp(765) @@ "Wyoming" :> Bp(0))

\* The table with Hawaii's rate entered as a percentage instead of a fraction.
STATE_TAX_RATES_percent == [STATE_TAX_RATES_base EXCEPT !["Hawaii"] = Rat(11, 1)]

STATE_TAX_RATES == STATE_TAX_RATES_base

STATES_LIST == DOMAIN STATE_TAX_RATES

FACE_VALUE == 1000

----------------------------------------------------------------------------
(* Helper functions, lines 52-77 *)

\* sorted(brackets.items(), reverse=True): the (threshold, rate) pairs, largest
\* threshold first (the keys are distinct, so the rates never decide the order).
RECURSIVE SortedDesc(_)
SortedDesc(keys) ==
    IF keys = {} THEN <<>>
    ELSE LET m == CHOOSE x \in keys : \A y \in keys : y <= x
         IN  <<m>> \o SortedDesc(keys \ {m})

sorted_items_reverse(brackets) ==
    LET ks == SortedDesc(DOMAIN brackets)
    IN  [i \in 1..Len(ks) |-> <<ks[i], brackets[ks[i]]>>]

\* The for loop of lines 56-59 from position i on; rate = 0.0 when it never breaks.
RECURSIVE BracketScan(_, _, _)
BracketScan(items, i, income) ==
    IF i > Len(items) THEN Num(0)
    ELSE IF income >= items[i][1] THEN items[i][2]
    ELSE BracketScan(items, i + 1, income)

\* The same loop with the comparison written income > bracket_income.
RECURSIVE BracketScan_strict(_, _, _)
BracketScan_strict(items, i, income) ==
    IF i > Len(items) THEN Num(0)
    ELSE IF income > items[i][1] THEN items[i][2]
    ELSE BracketScan_strict(items, i + 1, income)

get_federal_tax_rate_strict(income, status) ==
    BracketScan_strict(sorted_items_reverse(FEDERAL_TAX_BRACKETS[status]), 1, income)

\* The loop walking the brackets without reverse=True.
get_federal_tax_rate_ascending(income, status) ==
    LET items == sorted_items_reverse(FEDERAL_TAX_BRACKETS[status])
        n == Len(items)
    IN  BracketScan([i \in 1..n |-> items[n + 1 - i]], 1, income)

get_federal_tax_rate(income, status) ==
    BracketScan(sorted_items_reverse(FEDERAL_TAX_BRACKETS[status]), 1, income)


\* What a call produced: the exception raised (None when it returned) and the
\* tuple returned.
Raised(exc) == [exc |-> exc, current_yield |-> None, ytm |-> None, ytc |-> None]
Returned(cy, y, c) == [exc |-> None, current_yield |-> cy, ytm |-> y, ytc |-> c]

\* Line 67.
current_yield_of(annual_coupon, market_price) ==
    IF GtZero(market_price) THEN RDiv(annual_coupon, market_price) ELSE Num(0)

\* Lines 70-71: the value, or ZeroDivisionError when (face_value + market_price) / 2
\* is zero.
ytm_of(annual_coupon, face_value, market_price, years_to_maturity) ==
    IF GtZero(years_to_maturity) /\ GtZero(market_price)
    THEN RDiv(RAdd(annual_coupon,
                   RDiv(RSub(face_value, market_price), years_to_maturity)),
              RDiv(RAdd(face_value, market_price), Num(2)))
    ELSE Num(0)

\* Lines 74-75.  The condition is evaluated first, left to right with short
\* circuit: years_to_call > 0 raises TypeError when years_to_call is None; a
\* call_price of None or 0 is false.
ytc_of(annual_coupon, market_price, years_to_call, call_price) ==
    IF ~IsNum(years_to_call) THEN TypeError
    ELSE IF GtZero(years_to_call) /\ GtZero(market_price) /\ Truthy(call_price)
    THEN RDiv(RAdd(annual_coupon,
                   RDiv(RSub(call_price, market_price), years_to_call)),
              RDiv(RAdd(call_price, market_price), Num(2)))
    ELSE Num(0)

calculate_yields(face_value, market_price, coupon_rate, years_to_maturity, years_to_call, call_price) ==
    LET annual_coupon == RMul(face_value, coupon_rate)
        cy == current_yield_of(annual_coupon, market_price)
        y == ytm_of(annual_coupon, face_value, market_price, years_to_maturity)
        c == ytc_of(annual_coupon, market_price, years_to_call, call_price)
    IN  IF ~IsNum(y) THEN Raised(y)
        ELSE IF ~IsNum(c) THEN Raised(c)
        ELSE Returned(cy, y, c)

----------------------------------------------------------------------------
(* The tax-equivalent-yield branch of the bond loop, lines 127-135 *)

\* The branch with the first test written "fed_free or state_free".
taxable_equivalent_yield_or(ytm, fed_rate, st_rate, total_rate, fed_free, state_free) ==
    IF fed_free \/ state_free THEN RDiv(ytm, RSub(Num(1), total_rate))
    ELSE IF fed_free /\ ~state_free THEN RDiv(ytm, RSub(Num(1), fed_rate))
    ELSE IF ~fed_free /\ state_free THEN RMul(ytm, RSub(Num(1), st_rate))
    ELSE ytm

taxable_equivalent_yield(ytm, fed_rate, st_rate, total_rate, fed_free, state_free) ==
    IF fed_free /\ state_free THEN RDiv(ytm, RSub(Num(1), total_rate))
    ELSE IF fed_free /\ ~state_free THEN RDiv(ytm, RSub(Num(1), fed_rate))
    ELSE IF ~fed_free /\ state_free THEN RMul(ytm, RSub(Num(1), st_rate))
    ELSE ytm

\* Lines 137-145: the record appended for a bond.
result_record(bond, cy, ytm, ytc, tey) ==
    [BondType |-> bond.name,
     Coupon |-> bond.coupon,
     MarketPrice |-> bond.price,
     YTM |-> ytm,
     TaxableEquivalentYield |-> tey,
     CurrentYield |-> cy,
     YTC |-> IF GtZero(ytc) THEN ytc ELSE NA]

\* results.append(...) written as an insert at the front.
append_result_front(res, rec) == <<rec>> \o res

\* Line 137: results.append(...).
append_result(res, rec) == Append(res, rec)

----------------------------------------------------------------------------
(* Inputs *)

Bond(name, coupon, price, maturity, callable, call_years, call_price, fed_free, state_free) ==
    [name |-> name, coupon |-> coupon, price |-> price, maturity |-> maturity,
     callable |-> callable, call_years |-> call_years, call_price |-> call_price,
     fed_free |-> fed_free, state_free |-> state_free]

\* Lines 108-116.
BOND_DATA ==
    << Bond("Municipal Bond (In-State)", Pct(40), Num(1020), Num(10), FALSE, None, None, TRUE, TRUE),
       Bond("Municipal Bond (Out-of-State)", Pct(42), Num(1030), Num(12), FALSE, None, None, TRUE, FALSE),
       Bond("U.S. Treasury Note", Pct(50), Num(990), Num(10), FALSE, None, None, FALSE, TRUE),
       Bond("Corporate Bond (Secured)", Pct(65), Num(1050), Num(15), TRUE, Num(5), Num(1025), FALSE, FALSE),
       Bond("Corporate Bond (Unsecured)", Pct(72), Num(1000), Num(20), TRUE, Num(5), Num(1030), FALSE, FALSE),
       Bond("Convertible Bond", Pct(55), Num(1100), Num(8), FALSE, None, None, FALSE, FALSE),
       Bond("Foreign Bond (Developed)", Pct(45), Num(980), Num(7), FALSE, None, None, FALSE, FALSE) >>

\* The same bonds with a non-callable bond's years_to_call given as 0 instead of
\* None (call_price stays None).
ZeroCallYears(bond) ==
    IF bond.call_years = None THEN [bond EXCEPT !.call_years = Num(0)] ELSE bond

BondDataZero == [i \in 1..Len(BOND_DATA) |-> ZeroCallYears(BOND_DATA[i])]

\* The bonds the shorter lists are drawn from.
BondPool ==
    { BOND_DATA[1], BondDataZero[1], BondDataZero[2], BondDataZero[3], BOND_DATA[4] }

\* Longest list drawn from BondPool.
MaxBonds == 2

BondLists ==
    {BOND_DATA, BondDataZero} \cup UNION {[1..n -> BondPool] : n \in 0..MaxBonds}

Thresholds == UNION {DOMAIN FEDERAL_TAX_BRACKETS[s] : s \in DOMAIN FEDERAL_TAX_BRACKETS}

\* Every bracket threshold, the income one below it, and two incomes strictly
\* inside a bracket.
Incomes ==
    Thresholds \cup {t - 1 : t \in Thresholds \ {0}} \cup {100000, 1000000}

IncomeSample == {0, 100000, 609350}
StateSample == {"None", "California", "Connecticut"}

FaceValues == {Num(1000), Num(100)}
Prices == {Num(-5), Num(0), Num(990), Num(1000), Num(1020)}
Coupons == {Num(0), Pct(40), Pct(65)}
Maturities == {Num(-1), Num(0), Num(10)}
CallYears == {None, Num(0), Num(5)}
CallPrices == {None, Num(0), Num(1025)}

NoArgs == <<>>
NoRet == <<>>

----------------------------------------------------------------------------
(* The script *)

InitWith(incomes, states, lists) ==
    /\ annual_income \in incomes
    /\ filing_status \in DOMAIN FEDERAL_TAX_BRACKETS
    /\ investor_state \in states
    /\ bond_data \in lists
    /\ federal_rate = Unset
    /\ state_rate = Unset
    /\ total_tax_rate = Unset
    /\ results = <<>>
    /\ idx = 1
    /\ args = NoArgs
    /\ ret = NoRet
    /\ pc = "tax"

\* A few investor profiles, every bond list.
Init == InitWith(IncomeSample, StateSample, BondLists)

\* Every investor profile, the script's own bond list and its variant.
InitTax == InitWith(Incomes, STATES_LIST, {BOND_DATA, BondDataZero})

\* Lines 92-94.
ResolveTax ==
    /\ pc = "tax"
    /\ federal_rate' = get_federal_tax_rate(annual_income, filing_status)
    /\ state_rate' = STATE_TAX_RATES[investor_state]
    /\ total_tax_rate' = RAdd(federal_rate', state_rate')
    /\ pc' = "loop"
    /\ UNCHANGED <<annual_income, filing_status, investor_state, bond_data, results,
                   idx, args, ret>>

CallArgs(face_value, bond) ==
    [face_value |-> face_value, market_price |-> bond.price,
     coupon_rate |-> bond.coupon, years_to_maturity |-> bond.maturity,
     years_to_call |-> bond.call_years, call_price |-> bond.call_price]

Call(a) ==
    calculate_yields(a.face_value, a.market_price, a.coupon_rate,
                     a.years_to_maturity, a.years_to_call, a.call_price)

\* One iteration of the loop of lines 121-145.  There is no try/except: an
\* exception raised in the body ends the script.
BondStep ==
    /\ pc = "loop"
    /\ idx <= Len(bond_data)
    /\ LET bond == bond_data[idx]
           a == CallArgs(Num(FACE_VALUE), bond)
           r == Call(a)
           tey == IF r.exc = None
                  THEN taxable_equivalent_yield(r.ytm, federal_rate, state_rate,
                                                total_tax_rate, bond.fed_free,
                                                bond.state_free)
                  ELSE None
       IN  /\ args' = a
           /\ ret' = r
           /\ IF r.exc # None \/ ~IsNum(tey)
              THEN /\ pc' = "crashed"
                   /\ UNCHANGED <<results, idx>>
              ELSE /\ results' = append_result(results,
                                     result_record(bond, r.current_yield, r.ytm,
                                                   r.ytc, tey))
                   /\ idx' = idx + 1
                   /\ pc' = pc
    /\ UNCHANGED <<annual_income, filing_status, investor_state, federal_rate,
                   state_rate, total_tax_rate, bond_data>>

\* Line 147: the loop is over and the results become the table.
Finish ==
    /\ pc = "loop"
    /\ idx > Len(bond_data)
    /\ pc' = "done"
    /\ UNCHANGED <<annual_income, filing_status, investor_state, federal_rate,
                   state_rate, total_tax_rate, bond_data, results, idx, args, ret>>

Next == ResolveTax \/ BondStep \/ Finish

Spec == Init /\ [][Next]_vars

SpecTax == InitTax /\ [][Next]_vars

----------------------------------------------------------------------------
(* calculate_yields on its own *)

InitYields ==
    /\ args \in [face_value : FaceValues, market_price : Prices,
                 coupon_rate : Coupons, years_to_maturity : Maturities,
                 years_to_call : CallYears, call_price : CallPrices]
    /\ ret = NoRet
    /\ pc = "call"
    /\ annual_income = 100000
    /\ filing_status = "Single"
    /\ investor_state = "California"
    /\ federal_rate = Unset
    /\ state_rate = Unset
    /\ total_tax_rate = Unset
    /\ bond_data = <<>>
    /\ results = <<>>
    /\ idx = 1

\* Lines 62-77, called once with args.
CallCalculateYields ==
    /\ pc = "call"
    /\ ret' = Call(args)
    /\ pc' = IF ret'.exc = None THEN "returned" ELSE "raised"
    /\ UNCHANGED <<annual_income, filing_status, investor_state, federal_rate,
                   state_rate, total_tax_rate, bond_data, results, idx, args>>

NextYields == CallCalculateYields

SpecYields == InitYields /\ [][NextYields]_vars

----------------------------------------------------------------------------
(* Properties *)

One == Num(1)

\* The largest threshold of a bracket table that is <= income.
ReachedThreshold(brackets, income) ==
    CHOOSE t \in DOMAIN brackets :
        /\ t <= income
        /\ \A u \in DOMAIN brackets : u <= income => u <= t

\* C1: for every filing status and every income >= 0, once lines 92-94 have run,
\* federal_rate is the rate attached to the largest threshold <= income of that
\* status's table; such a threshold always exists because 0 is in every table.
C1_MarginalRateLookup ==
    federal_rate # Unset =>
        LET brackets == FEDERAL_TAX_BRACKETS[filing_status]
        IN  /\ 0 \in DOMAIN brackets
            /\ \E t \in DOMAIN brackets : t <= annual_income
            /\ federal_rate = brackets[ReachedThreshold(brackets, annual_income)]

\* An income exactly on a threshold has been resolved to that threshold's rate.
C1_Witness ==
    /\ pc = "loop"
    /\ filing_status = "Head of Household"
    /\ annual_income = 63100
    /\ federal_rate = Pct(220)

IsScenarioProfile ==
    /\ annual_income = 100000
    /\ filing_status = "Single"
    /\ investor_state = "California"

\* C2 as stated: income 100000, Single, California resolves to federal 0.24,
\* state 0.133, total 0.373.
C2_ScenarioAsStated ==
    (IsScenarioProfile /\ federal_rate # Unset) =>
        /\ federal_rate = Pct(240)
        /\ state_rate = Pct(133)
        /\ total_tax_rate = Pct(373)

\* C2 amended: income 100000, Single, California resolves to federal 0.22 (the
\* 24% bracket starts at 100525), state 0.133, total 0.353.
C2_ScenarioAmended ==
    (IsScenarioProfile /\ federal_rate # Unset) =>
        /\ federal_rate = Pct(220)
        /\ state_rate = Pct(133)
        /\ total_tax_rate = Pct(353)

\* The scenario's profile has been resolved.
C2_Witness == IsScenarioProfile /\ pc = "loop" /\ total_tax_rate # Unset

\* Rates the branch is tried with besides the resolved ones, a total of 1 included.
RateSample == {Num(0), Pct(240), Pct(500), Pct(900)}

\* C3: every record of results carries the taxable-equivalent yield of the branch
\* its bond's flags select: (true,true) ytm / (1 - total_rate); (true,false)
\* ytm / (1 - federal_rate); (false,true) ytm * (1 - state_rate); (false,false)
\* ytm, and the (false,false) value is ytm whatever the rates are.
C3_FourWayBranch ==
    \A k \in 1..Len(results) :
        LET b == bond_data[k]
            y == results[k].YTM
            tey == results[k].TaxableEquivalentYield
        IN  /\ (b.fed_free /\ b.state_free) =>
                   RMul(tey, RSub(One, total_tax_rate)) = y
            /\ (b.fed_free /\ ~b.state_free) =>
                   RMul(tey, RSub(One, federal_rate)) = y
            /\ (~b.fed_free /\ b.state_free) =>
                   tey = RMul(y, RSub(One, state_rate))
            /\ (~b.fed_free /\ ~b.state_free) =>
                   /\ tey = y
                   /\ \A f \in RateSample, st \in RateSample :
                          taxable_equivalent_yield(y, f, st, RAdd(f, st), FALSE, FALSE) = y

\* A whole list with all four flag combinations was computed under a non-zero
\* state rate and a non-zero yield.
C3_Witness ==
    /\ pc = "done"
    /\ state_rate # Num(0)
    /\ \A ff \in BOOLEAN, sf \in BOOLEAN :
           \E k \in 1..Len(results) :
               /\ bond_data[k].fed_free = ff
               /\ bond_data[k].state_free = sf
               /\ results[k].YTM # Num(0)

CallFinished == pc \in {"returned", "raised"}

YtcPreconditions ==
    /\ IsNum(args.years_to_call) /\ GtZero(args.years_to_call)
    /\ GtZero(args.market_price)
    /\ Truthy(args.call_price)

\* C4: whenever years_to_call > 0, market_price > 0 and a non-zero call_price do
\* not all hold (in particular years_to_call None or 0 with call_price None),
\* calculate_yields raises nothing and returns ytc = 0.
C4_NonCallableYtcZero ==
    (CallFinished /\ ~YtcPreconditions) => (pc = "returned" /\ ret.ytc = Num(0))

\* C5: calculate_yields returns ytm = (face_value*coupon_rate + (face_value -
\* market_price)/years_to_maturity) / ((face_value + market_price)/2) when
\* years_to_maturity > 0 and market_price > 0, and returns ytm = 0, never a
\* fault, otherwise.
C5_YtmFormulaOrZero ==
    CallFinished =>
        /\ pc = "returned"
        /\ IF GtZero(args.years_to_maturity) /\ GtZero(args.market_price)
           THEN RMul(ret.ytm, RDiv(RAdd(args.face_value, args.market_price), Num(2)))
                    = RAdd(RMul(args.face_value, args.coupon_rate),
                           RDiv(RSub(args.face_value, args.market_price),
                                args.years_to_maturity))
           ELSE ret.ytm = Num(0)

\* C6: calculate_yields returns current_yield = face_value*coupon_rate /
\* market_price when market_price > 0 (the coupon rate for a par bond) and 0 when
\* market_price <= 0, never a fault.
C6_CurrentYieldOrZero ==
    CallFinished =>
        /\ pc = "returned"
        /\ IF GtZero(args.market_price)
           THEN /\ RMul(ret.current_yield, args.market_price)
                       = RMul(args.face_value, args.coupon_rate)
                /\ args.market_price = args.face_value =>
                       ret.current_yield = args.coupon_rate
           ELSE ret.current_yield = Num(0)

\* C7: for every filing status the resolved rate is non-decreasing in income
\* (no smaller income resolves to a larger rate), every table pairs increasing
\* thresholds with ascending rates, and the rate lies in [0, 0.37].
C7_MonotoneInIncome ==
    federal_rate # Unset =>
        LET brackets == FEDERAL_TAX_BRACKETS[filing_status]
        IN  /\ \A a \in Incomes :
                   a <= annual_income =>
                       RLe(get_federal_tax_rate(a, filing_status), federal_rate)
            /\ \A t, u \in DOMAIN brackets :
                   t < u => RLt(brackets[t], brackets[u])
            /\ RLe(Num(0), federal_rate)
            /\ RLe(federal_rate, Pct(370))

\* The top income has been resolved to the top rate, above every other income.
C7_Witness ==
    /\ pc = "loop"
    /\ filing_status = "Single"
    /\ annual_income = 1000000
    /\ federal_rate = Pct(370)

\* C8: a bond whose computation faults does not end the batch: the script never
\* stops inside the loop, and ends with one entry per bond.
C8_BatchSurvivesFault ==
    /\ pc # "crashed"
    /\ pc = "done" => Len(results) = Len(bond_data)

\* C9: at every step results holds one record per bond processed so far, in
\* input order, the k-th carrying the k-th bond's name, coupon and market price;
\* when the loop completes there is exactly one record per input bond.
C9_ResultsFollowInput ==
    /\ Len(results) = idx - 1
    /\ Len(results) <= Len(bond_data)
    /\ \A k \in 1..Len(results) :
           /\ results[k].BondType = bond_data[k].name
           /\ results[k].Coupon = bond_data[k].coupon
           /\ results[k].MarketPrice = bond_data[k].price
    /\ pc = "done" => Len(results) = Len(bond_data)

\* A list of several different bonds was computed to the end.
C9_Witness ==
    /\ pc = "done"
    /\ Len(results) >= 2
    /\ results[1].BondType # results[2].BondType

\* C10: for every resolved profile federal_rate < 1 and total_tax_rate =
\* federal_rate + state_rate <= 0.503 < 1, so 1 - total_tax_rate and
\* 1 - federal_rate are strictly positive and the script never stops on a
\* division by zero in the tax-equivalent-yield branch.
C10_DivisorsPositive ==
    federal_rate # Unset =>
        /\ RLt(federal_rate, One)
        /\ total_tax_rate = RAdd(federal_rate, state_rate)
        /\ RLe(total_tax_rate, Pct(503))
        /\ RLt(total_tax_rate, One)
        /\ RLt(Num(0), RSub(One, total_tax_rate))
        /\ RLt(Num(0), RSub(One, federal_rate))
        /\ pc = "crashed" => ret.exc = TypeError

\* The largest total rate, 0.503, divided a fully exempt bond's yield.
C10_Witness ==
    /\ total_tax_rate = Pct(503)
    /\ Len(results) >= 1
    /\ bond_data[1].fed_free /\ bond_data[1].state_free
    /\ RLt(results[1].YTM, results[1].TaxableEquivalentYield)

============================================================================
